---- MODULE Spec2Model ----
(***************************************************************************)
(* Desk clock for the SHA2017 badge: Alerts (MQTT alert source with a      *)
(* freshness window), Output (display / neopixel reconciliation) and the   *)
(* main poll loop of src/__init__.py.                                      *)
(*                                                                         *)
(* Text is a sequence of one-character strings, a payload a sequence of    *)
(* byte values.  Python's None is the value None below.                    *)
(***************************************************************************)
EXTENDS Integers, Sequences, FiniteSets, TLC

VARIABLES
    now,            \* utime.time(), seconds since the epoch
    wifi,           \* wifi.status()
    sock,           \* the MQTT client's socket: "open" or "closed"
    subscribed,     \* the broker session holds the subscription to TOPIC_INFO
    inbox,          \* messages the broker has sent that check_msg has not read
    alert,          \* Alerts._alert
    alert_time,     \* Alerts._alert_time
    old_alert,      \* Output._old_alert
    old_date_str,   \* Output._old_date_str
    old_time_str,   \* Output._old_time_str
    neopixels,      \* Output._neopixels
    strip,          \* the frame neopixel.send() was given last, <<>> before any
    screen,         \* what the display shows: the framebuffer as flushed last
    width,          \* display.width()
    pc,             \* position of main: "start", then "get", "draw" or
                    \* "sleep" in its loop; "exited" once main has returned,
                    \* "raised" once an exception has left the loop
    getCall,        \* record of the last Alerts.get() call
    drawCall        \* record of the last Output.draw() call

alertsVars == <<now, wifi, sock, subscribed, inbox, alert, alert_time, getCall>>
outputVars ==
    <<old_alert, old_date_str, old_time_str, neopixels, strip, screen, drawCall>>
vars == <<now, wifi, sock, subscribed, inbox, alert, alert_time, old_alert,
          old_date_str, old_time_str, neopixels, strip, screen, width, pc,
          getCall, drawCall>>

----------------------------------------------------------------------------
(* Bounds of the model *)

\* seconds of the loop that are explored
MaxElapsed == 12
\* longest time one loop iteration takes (sleep(1) plus blocking calls)
MaxStep == 2
\* messages the transport buffers
MaxQueue == 1
\* getTextWidth of one character of the 7x5 font, in pixels
CharWidth == 2
\* getTextHeight of the 7x5 font, in pixels
FontHeight == 7
\* longest alert text laid out by the word-wrap specification
MaxWrapLen == 8

(* Program constants *)

\* the epoch value below which Clock takes the RTC to be unset
RtcValidEpoch == 1585235437
\* Alerts(alert_timeout=10)
alert_timeout == 10
NUM_NEOPIXELS == 6
\* the SHA2017 badge's display, display.width() and display.height()
DisplayWidth == 296
DisplayHeight == 128

None == <<"None">>
BLACK == "BLACK"
WHITE == "WHITE"
TOPIC_INFO == "home/house/alert/info_string"

WEEKDAYS ==
    [wd \in 1..7 |->
        CASE wd = 1 -> <<"S","u","n","d","a","y">>
          [] wd = 2 -> <<"M","o","n","d","a","y">>
          [] wd = 3 -> <<"T","u","e","s","d","a","y">>
          [] wd = 4 -> <<"W","e","d","n","e","s","d","a","y">>
          [] wd = 5 -> <<"T","h","u","r","s","d","a","y">>
          [] wd = 6 -> <<"F","r","i","d","a","y">>
          [] wd = 7 -> <<"S","a","t","u","r","d","a","y">>]

----------------------------------------------------------------------------
(* Text helpers: bytes.decode('utf-8'), str.strip(), str.split(' ') *)

\* the character of an ASCII byte
Chr(b) ==
    CASE b = 32 -> " "
      [] b = 97 -> "a"
      [] b = 98 -> "b"
      [] OTHER -> "?"

\* data.decode('utf-8'): raises on a byte that is no UTF-8 (0x80..0xFF alone)
DecodeRaises(data) == \E i \in 1..Len(data) : data[i] >= 128
Decode(data) == [i \in 1..Len(data) |-> Chr(data[i])]

IsSpace(c) == c = " "

RECURSIVE LStrip(_)
LStrip(s) == IF s # <<>> /\ IsSpace(Head(s)) THEN LStrip(Tail(s)) ELSE s

RECURSIVE RStrip(_)
RStrip(s) ==
    IF s # <<>> /\ IsSpace(s[Len(s)]) THEN RStrip(SubSeq(s, 1, Len(s) - 1)) ELSE s

\* str.strip()
Strip(s) == RStrip(LStrip(s))

----------------------------------------------------------------------------
(* Alerts *)

\* the messages the broker may deliver on the subscribed topic: "a", " b ",
\* " " and one byte that is no UTF-8
Messages ==
    {[topic |-> TOPIC_INFO, data |-> d] :
        d \in {<<97>>, <<32, 98, 32>>, <<32>>, <<255>>}}

NoGet ==
    [called |-> FALSE, now |-> 0, pre_alert |-> None, pre_time |-> 0,
     ops |-> <<>>, raised |-> FALSE, delivered |-> <<>>, ret |-> None,
     reconnected |-> FALSE]

\* init_wifi(): TRUE at once when wifi.status(); else wifi.connect() and the
\* answer of wifi.wait()
InitWifiOutcomes(w) ==
    IF w THEN {[ok |-> TRUE, ops |-> <<"wifi.status">>]}
    ELSE {[ok |-> r, ops |-> <<"wifi.status", "wifi.connect", "wifi.wait">>] :
             r \in BOOLEAN}

\* Alerts._connect(): every failure is swallowed.  client.connect() opens a new
\* socket with a clean session; client.subscribe() may raise with the socket
\* lost or with the socket still usable (the broker refuses the subscription).
ConnectOutcomes(w, s, sub, q) ==
    UNION { IF ~wr.ok
            THEN {[wifi |-> FALSE, sock |-> s, subscribed |-> sub, inbox |-> q,
                   ops |-> wr.ops]}
            ELSE {[wifi |-> TRUE, sock |-> "closed", subscribed |-> FALSE,
                   inbox |-> <<>>, ops |-> wr.ops \o <<"connect">>],
                  [wifi |-> TRUE, sock |-> "open", subscribed |-> TRUE,
                   inbox |-> <<>>, ops |-> wr.ops \o <<"connect", "subscribe">>],
                  [wifi |-> TRUE, sock |-> "closed", subscribed |-> FALSE,
                   inbox |-> <<>>, ops |-> wr.ops \o <<"connect", "subscribe">>],
                  [wifi |-> TRUE, sock |-> "open", subscribed |-> FALSE,
                   inbox |-> <<>>, ops |-> wr.ops \o <<"connect", "subscribe">>]}
          : wr \in InitWifiOutcomes(w) }

\* variant: the window is closed one second late
IsFreshLate(t, at, timeout) == t <= (at + timeout)

\* the test of Alerts.get(): the stored alert is still inside its window
IsFresh(t, at, timeout) == t < (at + timeout)

\* variant: the arrival time is not reset
OnMessageKeepTime(topic, data, a, at, t) ==
    IF topic = TOPIC_INFO
    THEN [alert |-> Strip(Decode(data)), alert_time |-> at]
    ELSE [alert |-> a, alert_time |-> at]

\* on_message(topic, data): the stored alert and its time afterwards
OnMessage(topic, data, a, at, t) ==
    IF topic = TOPIC_INFO
    THEN [alert |-> Strip(Decode(data)), alert_time |-> t]
    ELSE [alert |-> a, alert_time |-> at]

OnMessageRaises(topic, data) == topic = TOPIC_INFO /\ DecodeRaises(data)

\* variant: the expired alert is kept
ClearedAlertKept(a) == a

\* what get() stores before it polls the transport
ClearedAlert(a) == None

\* the value get() returns after a check_msg that did not raise
ReturnAfterCheck(a) == a

\* variant: the except branch returns what is stored
ReturnStored(a) == a

\* the value get() returns from its except branch
ReturnAfterRaise(a) == None

\* get() while the alert is fresh: no transport call
GetFresh ==
    /\ pc = "get"
    /\ IsFresh(now, alert_time, alert_timeout)
    /\ getCall' = [called |-> TRUE, now |-> now, pre_alert |-> alert,
                   pre_time |-> alert_time, ops |-> <<>>, raised |-> FALSE,
                   delivered |-> <<>>, ret |-> alert,
                   reconnected |-> getCall.reconnected]
    /\ pc' = "draw"
    /\ UNCHANGED <<now, wifi, sock, subscribed, inbox, alert, alert_time,
                   outputVars, width>>

\* get(), check_msg() finds nothing to read
GetNoMessage ==
    /\ pc = "get"
    /\ ~IsFresh(now, alert_time, alert_timeout)
    /\ sock = "open" /\ inbox = <<>>
    /\ alert' = ClearedAlert(alert)
    /\ getCall' = [called |-> TRUE, now |-> now, pre_alert |-> alert,
                   pre_time |-> alert_time, ops |-> <<"check_msg">>,
                   raised |-> FALSE, delivered |-> <<>>,
                   ret |-> ReturnAfterCheck(alert'),
                   reconnected |-> getCall.reconnected]
    /\ pc' = "draw"
    /\ UNCHANGED <<now, wifi, sock, subscribed, inbox, alert_time, outputVars, width>>

\* variant: check_msg empties the queue
UnreadNone(q) == <<>>

\* what check_msg leaves queued: it reads one message, the oldest
Unread(q) == Tail(q)

\* get(), check_msg() reads one message, calls on_message and returns
GetMessage ==
    /\ pc = "get"
    /\ ~IsFresh(now, alert_time, alert_timeout)
    /\ sock = "open" /\ inbox # <<>>
    /\ ~OnMessageRaises(Head(inbox).topic, Head(inbox).data)
    /\ LET m == Head(inbox)
           st == OnMessage(m.topic, m.data, ClearedAlert(alert), alert_time, now)
       IN /\ alert' = st.alert
          /\ alert_time' = st.alert_time
          /\ getCall' = [called |-> TRUE, now |-> now, pre_alert |-> alert,
                         pre_time |-> alert_time, ops |-> <<"check_msg">>,
                         raised |-> FALSE, delivered |-> <<m>>,
                         ret |-> ReturnAfterCheck(st.alert),
                         reconnected |-> getCall.reconnected]
    /\ inbox' = Unread(inbox)
    /\ pc' = "draw"
    /\ UNCHANGED <<now, wifi, sock, subscribed, outputVars, width>>

\* variant: `except OSError:` in place of the bare `except:`
ExceptCatchesOSError(exc) == exc = "OSError"

\* the bare `except:` of get() catches every exception
ExceptCatches(exc) == TRUE

\* check_msg() raised exc inside get(): the except branch runs _connect() and
\* returns None; an exception it does not catch leaves get() and ends main
Reconnect(a, at, delivered, exc) ==
    IF ExceptCatches(exc)
    THEN \E c \in ConnectOutcomes(wifi, sock, subscribed, inbox) :
            /\ wifi' = c.wifi
            /\ sock' = c.sock
            /\ subscribed' = c.subscribed
            /\ inbox' = c.inbox
            /\ getCall' = [called |-> TRUE, now |-> now, pre_alert |-> alert,
                           pre_time |-> alert_time,
                           ops |-> <<"check_msg">> \o c.ops,
                           raised |-> TRUE, delivered |-> delivered,
                           ret |-> ReturnAfterRaise(a), reconnected |-> TRUE]
            /\ alert' = a
            /\ alert_time' = at
            /\ pc' = "draw"
            /\ UNCHANGED <<now, outputVars, width>>
    ELSE /\ getCall' = [called |-> TRUE, now |-> now, pre_alert |-> alert,
                        pre_time |-> alert_time, ops |-> <<"check_msg">>,
                        raised |-> TRUE, delivered |-> delivered,
                        ret |-> None, reconnected |-> getCall.reconnected]
         /\ alert' = a
         /\ alert_time' = at
         /\ pc' = "raised"
         /\ UNCHANGED <<now, wifi, sock, subscribed, inbox, outputVars, width>>

\* get(), check_msg() raises on a socket that is not connected
GetSocketError ==
    /\ pc = "get"
    /\ ~IsFresh(now, alert_time, alert_timeout)
    /\ sock = "closed"
    /\ Reconnect(ClearedAlert(alert), alert_time, <<>>, "OSError")

\* get(), on_message raises inside check_msg(): the payload is no UTF-8
GetDecodeError ==
    /\ pc = "get"
    /\ ~IsFresh(now, alert_time, alert_timeout)
    /\ sock = "open" /\ inbox # <<>>
    /\ OnMessageRaises(Head(inbox).topic, Head(inbox).data)
    /\ Reconnect(ClearedAlert(alert), alert_time, <<Head(inbox)>>, "UnicodeError")

\* get(), check_msg() raises after on_message returned: the acknowledgement
\* of a QoS 1 message cannot be written
GetAckError ==
    /\ pc = "get"
    /\ ~IsFresh(now, alert_time, alert_timeout)
    /\ sock = "open" /\ inbox # <<>>
    /\ ~OnMessageRaises(Head(inbox).topic, Head(inbox).data)
    /\ LET m == Head(inbox)
           st == OnMessage(m.topic, m.data, ClearedAlert(alert), alert_time, now)
       IN Reconnect(st.alert, st.alert_time, <<m>>, "OSError")

Get ==
    \/ GetFresh
    \/ GetNoMessage
    \/ GetMessage
    \/ GetSocketError
    \/ GetDecodeError
    \/ GetAckError

----------------------------------------------------------------------------
(* The environment of Alerts: the broker and the network.  main is one      *)
(* thread and only get() reads the transport, so what the network does      *)
(* between two get() calls is placed in the sleep that separates them.      *)

\* a message is published and the broker sends it to the subscribed client
PublishFrom(msgs, limit) ==
    /\ pc = "sleep"
    /\ sock = "open" /\ subscribed
    /\ Len(inbox) < limit
    /\ \E m \in msgs : inbox' = Append(inbox, m)
    /\ UNCHANGED <<now, wifi, sock, subscribed, alert, alert_time, getCall,
                   outputVars, width, pc>>

Publish == PublishFrom(Messages, MaxQueue)

\* the connection to the broker is lost
LinkDrop ==
    /\ pc = "sleep"
    /\ sock = "open"
    /\ sock' = "closed"
    /\ subscribed' = FALSE
    /\ inbox' = <<>>
    /\ UNCHANGED <<now, wifi, alert, alert_time, getCall, outputVars, width, pc>>

\* the WiFi goes down, and the connection with it
WifiDrop ==
    /\ pc = "sleep"
    /\ wifi
    /\ wifi' = FALSE
    /\ sock' = "closed"
    /\ subscribed' = FALSE
    /\ inbox' = <<>>
    /\ UNCHANGED <<now, alert, alert_time, getCall, outputVars, width, pc>>

----------------------------------------------------------------------------
(* Output *)

Digit(n) == <<"0", "1", "2", "3", "4", "5", "6", "7", "8", "9">>[n + 1]

\* '%02d' % n, for 0 <= n < 100
TwoDigits(n) == <<Digit(n \div 10), Digit(n % 10)>>

\* Output._format_time: '%02d:%02d' % (datetime[3], datetime[4])
FormatTime(dt) == TwoDigits(dt[4]) \o <<":">> \o TwoDigits(dt[5])

\* Output._format_date: WEEKDAYS[datetime[6]]
FormatDate(dt) == WEEKDAYS[dt[7]]

\* display.getTextWidth(text, '7x5') and display.getTextHeight(text, '7x5')
getTextWidth(text) == Len(text) * CharWidth
getTextHeight(text) == FontHeight

RECURSIVE Repeat(_, _)
Repeat(s, n) == IF n = 0 THEN <<>> ELSE s \o Repeat(s, n - 1)

\* the frames of _neopixels_off, _neopixels_white and _neopixels_pink
FrameOff == Repeat(<<0, 0, 0, 0>>, NUM_NEOPIXELS)
FrameWhite == Repeat(<<0, 0, 0, 16>>, NUM_NEOPIXELS)
FramePink == Repeat(<<0, 16, 16, 0>>, NUM_NEOPIXELS)

\* _neopixels_off, _neopixels_white, _neopixels_pink: the frame sent and the
\* value _neopixels is given
NeopixelsOff == [frame |-> FrameOff, on |-> FALSE]
NeopixelsWhite == [frame |-> FrameWhite, on |-> TRUE]
NeopixelsPink == [frame |-> FramePink, on |-> TRUE]

\* variant: the blink uses the white frame
BlinkCallWhite(on) == IF on THEN NeopixelsOff ELSE NeopixelsWhite

\* the neopixel call of an unchanged alert
BlinkCall(on) == IF on THEN NeopixelsOff ELSE NeopixelsPink

\* variant: the clock branch lights the neopixels
ClockLedCallPink == NeopixelsPink

\* the neopixel call of the clock branch
ClockLedCall == NeopixelsOff

DrawFill(color) == [op |-> "drawFill", color |-> color]
Flush == [op |-> "flush"]
DrawText(x, y, text, scale) ==
    [op |-> "drawText", x |-> x, y |-> y, text |-> text, color |-> BLACK,
     font |-> "7x5", sx |-> scale, sy |-> scale]

\* the display after the framebuffer operations ops, the framebuffer being
\* fbuf and the display showing scr before them
RECURSIVE Render(_, _, _)
Render(ops, fbuf, scr) ==
    IF ops = <<>> THEN scr
    ELSE LET o == Head(ops)
         IN CASE o.op = "drawFill" ->
                    Render(Tail(ops), [fill |-> o.color, texts |-> <<>>], scr)
              [] o.op = "drawText" ->
                    Render(Tail(ops),
                           [fbuf EXCEPT !.texts =
                               Append(@, [x |-> o.x, y |-> o.y, text |-> o.text,
                                          scale |-> o.sx])],
                           scr)
              [] o.op = "flush" -> Render(Tail(ops), fbuf, fbuf)

\* alert.split(' ')
RECURSIVE Split(_)
Split(s) ==
    IF \E i \in 1..Len(s) : s[i] = " "
    THEN LET i == CHOOSE k \in 1..Len(s) :
                     s[k] = " " /\ \A j \in 1..(k - 1) : s[j] # " "
         IN <<SubSeq(s, 1, i - 1)>> \o Split(SubSeq(s, i + 1, Len(s)))
    ELSE <<s>>

\* variant: the width is compared without the scale factor
TooWideUnscaled(joined, w) == getTextWidth(joined) >= w

\* the word-wrap test: joined does not fit on the line
TooWide(joined, w) == (getTextWidth(joined) * 3) >= w

\* variant: the line height is rounded up
LineHeightCeil(text_height) == ((text_height * 14) + 9) \div 10

\* int(text_height * 1.4)
LineHeight(text_height) == (text_height * 14) \div 10

\* variant: the word is appended with no space
JoinedNoSpace(chunk, word) == chunk \o word

\* joined = chunk + ' ' + word
Joined(chunk, word) == chunk \o <<" ">> \o word

\* the for loop of draw() over words[i..], and the drawText after it
RECURSIVE WrapLoop(_, _, _, _, _)
WrapLoop(words, i, chunk, y, w) ==
    IF i > Len(words)
    THEN <<DrawText(0, y, chunk, 3)>>
    ELSE LET joined == Joined(chunk, words[i])
         IN IF TooWide(joined, w)
            THEN <<DrawText(0, y, chunk, 3)>>
                   \o WrapLoop(words, i + 1, words[i],
                               y + LineHeight(getTextHeight(words[i]) * 3), w)
            ELSE WrapLoop(words, i + 1, joined, y, w)

\* the drawText calls of the alert branch
WrapOps(a, w) == LET words == Split(a) IN WrapLoop(words, 2, words[1], 0, w)

\* `if alert:`
Truthy(a) == a # None /\ a # <<>>

\* variant: leaving an alert does not clear the screen
ClockNeedsClearDateOnly(oa, date_str, od) == date_str # od

\* the clock branch clears the screen first
ClockNeedsClear(oa, date_str, od) == oa # <<>> \/ date_str # od

\* variant: the clock branch never finds the time string unchanged
ClockUnchangedNever(time_str, ot) == FALSE

\* the clock branch has nothing to do
ClockUnchanged(time_str, ot) == time_str = ot

\* variant: the alert is drawn again on every call
AlertUnchangedNever(a, oa) == FALSE

\* the alert branch has nothing to draw
AlertUnchanged(a, oa) == a = oa

\* variant: a new alert leaves the cached time string
TimeStrKept(ot) == ot

\* the cached time string after a new alert is drawn
TimeStrAfterAlert(ot) == <<>>

DrawRecord(a, dt, mode, fb, led) ==
    [called |-> TRUE, alert |-> a, datetime |-> dt, mode |-> mode,
     pre |-> [old_alert |-> old_alert, old_date_str |-> old_date_str,
              old_time_str |-> old_time_str, neopixels |-> neopixels],
     fb |-> fb, led |-> led]

\* draw(alert, datetime), alert unchanged: blink the neopixels
DrawAlertSame(a, dt) ==
    /\ Truthy(a)
    /\ AlertUnchanged(a, old_alert)
    /\ LET c == BlinkCall(neopixels)
       IN /\ neopixels' = c.on
          /\ strip' = c.frame
          /\ drawCall' = DrawRecord(a, dt, "alert", <<>>, <<c.frame>>)
    /\ UNCHANGED <<old_alert, old_date_str, old_time_str, screen>>

\* draw(alert, datetime), a new alert: clear, then lay the text out
DrawAlertNew(a, dt) ==
    /\ Truthy(a)
    /\ ~AlertUnchanged(a, old_alert)
    /\ old_alert' = a
    /\ old_time_str' = TimeStrAfterAlert(old_time_str)
    /\ LET fb == <<DrawFill(BLACK), Flush, DrawFill(WHITE)>>
                    \o WrapOps(a, width) \o <<Flush>>
       IN /\ drawCall' = DrawRecord(a, dt, "alert", fb, <<>>)
          /\ screen' = Render(fb, screen, screen)
    /\ UNCHANGED <<old_date_str, neopixels, strip>>

\* draw(alert, datetime), no alert and the time string as drawn
DrawClockSame(a, dt) ==
    /\ ~Truthy(a)
    /\ ClockUnchanged(FormatTime(dt), old_time_str)
    /\ drawCall' = DrawRecord(a, dt, "clock", <<>>, <<>>)
    /\ UNCHANGED <<old_alert, old_date_str, old_time_str, neopixels, strip,
                   screen>>

\* draw(alert, datetime), no alert: draw the clock
DrawClock(a, dt) ==
    /\ ~Truthy(a)
    /\ ~ClockUnchanged(FormatTime(dt), old_time_str)
    /\ LET time_str == FormatTime(dt)
           date_str == FormatDate(dt)
           bottom == DisplayHeight - 2
           date_y == bottom - (getTextHeight(date_str) * 3)
           c == ClockLedCall
           fb == (IF ClockNeedsClear(old_alert, date_str, old_date_str)
                  THEN <<DrawFill(BLACK), Flush>> ELSE <<>>)
                   \o <<DrawFill(WHITE), DrawText(0, 0, time_str, 5),
                        DrawText(0, date_y, date_str, 3), Flush>>
       IN /\ old_alert' = <<>>
          /\ old_date_str' = date_str
          /\ old_time_str' = time_str
          /\ neopixels' = c.on
          /\ strip' = c.frame
          /\ drawCall' = DrawRecord(a, dt, "clock", fb, <<c.frame>>)
          /\ screen' = Render(fb, screen, screen)

DrawBody(a, dt) ==
    \/ DrawAlertSame(a, dt)
    \/ DrawAlertNew(a, dt)
    \/ DrawClockSame(a, dt)
    \/ DrawClock(a, dt)

----------------------------------------------------------------------------
(* main *)

NoDraw ==
    [called |-> FALSE, alert |-> None, datetime |-> <<>>, mode |-> "clock",
     pre |-> [old_alert |-> <<>>, old_date_str |-> <<>>, old_time_str |-> <<>>,
              neopixels |-> FALSE],
     fb |-> <<>>, led |-> <<>>]

\* utime.sleep(1) at the end of a loop iteration, while no more than limit
\* seconds have passed
SleepUntil(limit) ==
    /\ pc = "sleep"
    /\ \E d \in 1..MaxStep :
          /\ now + d <= RtcValidEpoch + limit
          /\ now' = now + d
    /\ pc' = "get"
    /\ UNCHANGED <<wifi, sock, subscribed, inbox, alert, alert_time, getCall,
                   outputVars, width>>

Sleep == SleepUntil(MaxElapsed)

\* clock.get(): the RTC's (y, m, d, h, m, s, wd, yd), read once per iteration
DateTimes ==
    {<<2020, 3, 26, 9, mi, 0, wd, 86>> : mi \in {41, 42}, wd \in {3, 4}}

\* output.draw(alerts.get(), clock.get())
Draw ==
    /\ pc = "draw"
    /\ \E dt \in DateTimes : DrawBody(getCall.ret, dt)
    /\ pc' = "sleep"
    /\ UNCHANGED <<alertsVars, width>>

\* what easydraw.msg() left on the display before the loop
BootScreen == [fill |-> "boot", texts |-> <<>>]

\* the fields of Alerts and Output as their constructors set them
Constructed ==
    /\ alert = None
    /\ alert_time = 0
    /\ old_alert = <<>>
    /\ old_date_str = <<>>
    /\ old_time_str = <<>>
    /\ neopixels = FALSE
    /\ strip = <<>>
    /\ screen = BootScreen
    /\ getCall = NoGet
    /\ drawCall = NoDraw

\* main is called: the WiFi is up or down, nothing is connected
Init ==
    /\ now = RtcValidEpoch
    /\ wifi \in BOOLEAN
    /\ sock = "closed"
    /\ subscribed = FALSE
    /\ inbox = <<>>
    /\ Constructed
    /\ width = DisplayWidth
    /\ pc = "start"

\* main: init_wifi() fails, 'could not set up WiFi', return
StartNoWifi ==
    /\ pc = "start"
    /\ \E wr \in InitWifiOutcomes(wifi) :
          /\ ~wr.ok
          /\ wifi' = FALSE
    /\ pc' = "exited"
    /\ UNCHANGED <<now, sock, subscribed, inbox, alert, alert_time, getCall,
                   outputVars, width>>

\* main: init_wifi() succeeds; Clock(), Alerts() with its one _connect(), for
\* which the WiFi may be down again, and Output(); the loop is entered
StartLoop ==
    /\ pc = "start"
    /\ \E wr \in InitWifiOutcomes(wifi) : wr.ok
    /\ \E w \in BOOLEAN :
         \E c \in ConnectOutcomes(w, "closed", FALSE, <<>>) :
            /\ wifi' = c.wifi
            /\ sock' = c.sock
            /\ subscribed' = c.subscribed
            /\ inbox' = c.inbox
    /\ pc' = "get"
    /\ UNCHANGED <<now, alert, alert_time, getCall, outputVars, width>>

Next ==
    \/ StartNoWifi
    \/ StartLoop
    \/ Get
    \/ Draw
    \/ Sleep
    \/ Publish
    \/ LinkDrop
    \/ WifiDrop

Spec == Init /\ [][Next]_vars

----------------------------------------------------------------------------
(* Output alone: draw() called with any sequence of alerts and datetimes *)

AlertInputs == {None, <<>>, <<"a">>, <<"b">>, <<"a", " ", "b">>}

RenderAny ==
    /\ \E a \in AlertInputs, dt \in DateTimes : DrawBody(a, dt)
    /\ UNCHANGED <<alertsVars, width, pc>>

SpecOutput == Init /\ [][RenderAny]_vars

----------------------------------------------------------------------------
(* The word-wrap of draw(): one alert of any text on a display of any width *)

RECURSIVE TextsOfLen(_)
TextsOfLen(n) ==
    IF n = 0 THEN {<<>>}
    ELSE {Append(t, c) : t \in TextsOfLen(n - 1), c \in {"a", " "}}

WrapTexts == UNION {TextsOfLen(n) : n \in 1..MaxWrapLen}
WrapWidths == 1..(3 * CharWidth * MaxWrapLen + 1)

InitWrap ==
    /\ now = RtcValidEpoch
    /\ wifi = TRUE /\ sock = "open" /\ subscribed = TRUE /\ inbox = <<>>
    /\ Constructed
    /\ width \in WrapWidths
    /\ pc = "draw"

WrapDraw ==
    /\ ~drawCall.called
    /\ \E a \in WrapTexts :
          DrawAlertNew(a, <<2020, 3, 26, 9, 41, 0, 3, 86>>)
    /\ UNCHANGED <<alertsVars, width, pc>>

SpecWrap == InitWrap /\ [][WrapDraw]_vars

\* The loop over a transport that works: messages that decode queue up while
\* alerts are shown and nothing fails.
MaxBacklog == 2
MaxQueueElapsed == 21

ValidMessages == {m \in Messages : ~DecodeRaises(m.data)}

InitQueue ==
    /\ now = RtcValidEpoch
    /\ wifi = TRUE /\ sock = "open" /\ subscribed = TRUE /\ inbox = <<>>
    /\ Constructed
    /\ width = DisplayWidth
    /\ pc = "get"

NextQueue ==
    \/ GetFresh
    \/ GetNoMessage
    \/ GetMessage
    \/ Draw
    \/ SleepUntil(MaxQueueElapsed)
    \/ PublishFrom(ValidMessages, MaxBacklog)

SpecQueue == InitQueue /\ [][NextQueue]_vars

----------------------------------------------------------------------------
(* Properties of Alerts.get() *)

RECURSIVE Count(_, _)
Count(seq, x) ==
    IF seq = <<>> THEN 0
    ELSE (IF Head(seq) = x THEN 1 ELSE 0) + Count(Tail(seq), x)

\* the last get() was made inside the window of the alert stored before it
FreshAtCall == getCall.now < getCall.pre_time + alert_timeout

\* the text on_message makes of the message the last get() read
DeliveredText == Strip(Decode(getCall.delivered[1].data))

\* the last get() read a message and on_message stored it
Stored ==
    /\ getCall.delivered # <<>>
    /\ ~OnMessageRaises(getCall.delivered[1].topic, getCall.delivered[1].data)

\* C1, as claimed: an alert A stored with arrival time t is returned by every
\* later get() made at now < t + w, and a get() made at now >= t + w returns
\* None.
C1_Original ==
    (getCall.called /\ getCall.pre_alert # None) =>
        IF FreshAtCall THEN getCall.ret = getCall.pre_alert
        ELSE getCall.ret = None

\* C1, amended: an alert A stored with arrival time t is returned, with no
\* transport call, by every later get() made at now < t + w; a get() made at
\* now >= t + w returns None, unless its check_msg delivers a new message and
\* does not raise: then it returns the trimmed text of that message, stored
\* with arrival time now.
C1_FreshThenExpired ==
    (getCall.called /\ getCall.pre_alert # None) =>
        IF FreshAtCall
        THEN /\ getCall.ret = getCall.pre_alert
             /\ getCall.ops = <<>>
             /\ alert = getCall.pre_alert
             /\ alert_time = getCall.pre_time
        ELSE \/ getCall.ret = None
             \/ /\ Stored
                /\ ~getCall.raised
                /\ getCall.ret = DeliveredText
                /\ alert = DeliveredText
                /\ alert_time = getCall.now

\* the alert "a" has been returned inside its window, and later its window
\* has elapsed and get() has returned None
C1_Witness ==
    /\ getCall.called
    /\ getCall.pre_alert = <<"a">>
    /\ getCall.now = getCall.pre_time + alert_timeout
    /\ getCall.ret = None
    /\ drawCall.called
    /\ drawCall.pre.old_alert = <<"a">>

C3_Original ==
    (/\ pc = "draw"
     /\ getCall.called
     /\ getCall.pre_alert # None
     /\ FreshAtCall
     /\ inbox # <<>>
     /\ ~OnMessageRaises(Head(inbox).topic, Head(inbox).data))
        => getCall.ret = Strip(Decode(Head(inbox).data))

\* C3, amended: a message B that reaches the transport while the alert A is
\* inside its window stays unread and get() keeps returning A; a get() made
\* once the window of A has elapsed whose check_msg delivers B and does not
\* raise returns the trimmed text of B, which has replaced A whole, with the
\* arrival time reset to the time of that call.
C3_ReplacedAfterWindow ==
    /\ (/\ pc = "draw"
        /\ getCall.called
        /\ getCall.pre_alert # None
        /\ FreshAtCall)
          => /\ getCall.ret = getCall.pre_alert
             /\ getCall.delivered = <<>>
    /\ (/\ getCall.called
        /\ Stored
        /\ ~getCall.raised)
          => /\ ~FreshAtCall
             /\ getCall.ret = DeliveredText
             /\ alert = DeliveredText
             /\ alert_time = getCall.now

\* the window of "a" has elapsed and the get() made then has read " b " and
\* returned "b"
C3_Witness ==
    /\ getCall.called
    /\ getCall.pre_alert = <<"a">>
    /\ getCall.now >= getCall.pre_time + alert_timeout
    /\ getCall.delivered = <<[topic |-> TOPIC_INFO, data |-> <<32, 98, 32>>]>>
    /\ ~getCall.raised
    /\ getCall.ret = <<"b">>
    /\ alert_time = getCall.now

\* the transport calls of one _connect(): init_wifi() once, then at most one
\* connect and one subscribe
IsConnectCycle(ops) ==
    /\ ops # <<>>
    /\ ops[1] = "wifi.status"
    /\ Count(ops, "wifi.status") = 1
    /\ Count(ops, "connect") <= 1
    /\ Count(ops, "subscribe") <= Count(ops, "connect")
    /\ Count(ops, "check_msg") = 0

\* C7: no exception leaves get(); a get() whose check_msg raises makes one
\* _connect() in that call, whatever becomes of it, and returns None; a get()
\* whose check_msg does not raise makes no reconnect call.
C7_ErrorsSwallowed ==
    getCall.called =>
        /\ getCall.raised =>
              /\ getCall.ret = None
              /\ getCall.ops[1] = "check_msg"
              /\ IsConnectCycle(Tail(getCall.ops))
        /\ ~getCall.raised =>
              /\ Count(getCall.ops, "wifi.status") = 0
              /\ Count(getCall.ops, "wifi.connect") = 0
              /\ Count(getCall.ops, "connect") = 0
              /\ Count(getCall.ops, "subscribe") = 0
        /\ pc # "raised"

\* check_msg has raised, the WiFi was down and did not come up, and get() has
\* returned None to the loop
C7_Witness ==
    /\ pc = "draw"
    /\ getCall.called
    /\ getCall.raised
    /\ getCall.ops = <<"check_msg", "wifi.status", "wifi.connect", "wifi.wait">>
    /\ getCall.ret = None
    /\ ~wifi

\* C8, as claimed: once check_msg has raised and get() has made its reconnect
\* attempt, a get() whose check_msg succeeds finds the client connected and
\* subscribed to the alert topic, however the reconnect attempt ended.
C8_Original ==
    (/\ pc = "draw"
     /\ getCall.called
     /\ getCall.reconnected
     /\ ~getCall.raised
     /\ getCall.ops = <<"check_msg">>)
        => (sock = "open" /\ subscribed)

----------------------------------------------------------------------------
(* Properties of Output.draw() *)

\* drawFill(BLACK) followed by flush()
HasFullClear(fb) ==
    \E i \in 1..(Len(fb) - 1) : fb[i] = DrawFill(BLACK) /\ fb[i + 1] = Flush

IsDrawText(o) == o.op = "drawText"

\* the drawText calls of the last draw(), in order
Lines == SelectSeq(drawCall.fb, IsDrawText)

RECURSIVE WordsOf(_)
WordsOf(lines) ==
    IF lines = <<>> THEN <<>>
    ELSE Split(Head(lines).text) \o WordsOf(Tail(lines))

\* C4, as claimed: a draw() issues the full clear exactly when it enters alert
\* mode with a first or new alert text, or is in clock mode with a date
\* string other than the last one rendered, or is the first clock-mode call
\* after alert mode.
C4_Original ==
    drawCall.called =>
        (HasFullClear(drawCall.fb) <=>
            \/ /\ drawCall.mode = "alert"
               /\ drawCall.alert # drawCall.pre.old_alert
            \/ /\ drawCall.mode = "clock"
               /\ FormatDate(drawCall.datetime) # drawCall.pre.old_date_str
            \/ /\ drawCall.mode = "clock"
               /\ drawCall.pre.old_alert # <<>>)

\* C5: a draw() given the alert text rendered last issues no framebuffer
\* operation; a clock-mode draw() whose HH:MM string is the one rendered last
\* issues none either, sends no LED frame and leaves the display state as it
\* was.
C5_NoRedraw ==
    drawCall.called =>
        /\ (/\ drawCall.alert # None
            /\ drawCall.pre.old_alert # <<>>
            /\ drawCall.alert = drawCall.pre.old_alert)
              => /\ drawCall.fb = <<>>
                 /\ old_alert = drawCall.pre.old_alert
                 /\ old_time_str = drawCall.pre.old_time_str
                 /\ old_date_str = drawCall.pre.old_date_str
        /\ (/\ drawCall.mode = "clock"
            /\ FormatTime(drawCall.datetime) = drawCall.pre.old_time_str)
              => /\ drawCall.fb = <<>>
                 /\ drawCall.led = <<>>
                 /\ old_alert = drawCall.pre.old_alert
                 /\ old_time_str = drawCall.pre.old_time_str
                 /\ old_date_str = drawCall.pre.old_date_str
                 /\ neopixels = drawCall.pre.neopixels

\* an alert has been passed a second time: nothing drawn, the LED switched
C5_Witness ==
    /\ drawCall.called
    /\ drawCall.alert = <<"a", " ", "b">>
    /\ drawCall.pre.old_alert = drawCall.alert
    /\ drawCall.fb = <<>>
    /\ drawCall.led = <<FramePink>>

\* C6: no line the word-wrap draws is wider, at scale 3, than the display,
\* but a line that is one word wider than the display by itself; and the
\* words of the lines drawn, in order, are the words of the alert, whole.
C6_WrapFits ==
    (drawCall.called /\ drawCall.mode = "alert" /\ drawCall.fb # <<>>) =>
        /\ \A i \in 1..Len(Lines) :
              (getTextWidth(Lines[i].text) * 3) > width
                 => Len(Split(Lines[i].text)) = 1
        /\ WordsOf(Lines) = Split(drawCall.alert)

\* at least two lines have been drawn: one of two words, and one word wider
\* than the display
C6_Witness ==
    /\ drawCall.called
    /\ Len(Lines) >= 2
    /\ \E i \in 1..Len(Lines) :
          /\ Len(Split(Lines[i].text)) = 2
          /\ \A k \in 1..Len(Lines[i].text) :
                k = 2 <=> Lines[i].text[k] = " "
    /\ \E j \in 1..Len(Lines) :
          /\ Len(Split(Lines[j].text)) = 1
          /\ (getTextWidth(Lines[j].text) * 3) > width

\* C9: the loop with an alert that arrives at t = 0 and a window of 10.
\* get() returns the alert at t = 0 and at every t < 10, and None at t = 10
\* when nothing else has arrived.  The draw() at t = 0, coming from clock
\* mode, is in alert mode with the full clear; a draw() that is passed the
\* alert again finds it rendered, draws nothing and switches the LED; the
\* draw() at t = 10 is in clock mode with the full clear and the LED off.
C9_Scenario ==
    /\ (getCall.called /\ Stored /\ ~getCall.raised)
          => getCall.ret = DeliveredText
    /\ (/\ getCall.called
        /\ Truthy(getCall.pre_alert)
        /\ getCall.now - getCall.pre_time \in 0..9)
          => getCall.ret = getCall.pre_alert
    /\ (/\ getCall.called
        /\ Truthy(getCall.pre_alert)
        /\ getCall.now - getCall.pre_time = 10
        /\ getCall.delivered = <<>>)
          => getCall.ret = None
    /\ (/\ pc = "sleep"
        /\ getCall.called /\ Stored /\ ~getCall.raised
        /\ Truthy(getCall.ret)
        /\ drawCall.pre.old_alert = <<>>)
          => /\ drawCall.mode = "alert"
             /\ HasFullClear(drawCall.fb)
             /\ old_alert = getCall.ret
    /\ (/\ pc = "draw"
        /\ getCall.called /\ getCall.ops = <<>>
        /\ Truthy(getCall.ret)
        /\ drawCall.called /\ drawCall.alert = getCall.ret)
          => old_alert = getCall.ret
    /\ (/\ pc = "sleep"
        /\ getCall.called /\ getCall.ops = <<>>
        /\ Truthy(getCall.ret)
        /\ drawCall.pre.old_alert = getCall.ret)
          => /\ drawCall.fb = <<>>
             /\ neopixels = ~drawCall.pre.neopixels
             /\ drawCall.led = <<IF neopixels THEN FramePink ELSE FrameOff>>
    /\ (/\ pc = "sleep"
        /\ getCall.called
        /\ Truthy(getCall.pre_alert)
        /\ getCall.now - getCall.pre_time = 10
        /\ getCall.ret = None
        /\ drawCall.pre.old_alert = getCall.pre_alert)
          => /\ drawCall.mode = "clock"
             /\ HasFullClear(drawCall.fb)
             /\ drawCall.led = <<FrameOff>>
             /\ ~neopixels
             /\ old_alert = <<>>

\* ten seconds after "a" arrived get() has returned None and draw() has gone
\* from the alert, LED lit, back to the clock with the full clear
C9_Witness ==
    /\ pc = "sleep"
    /\ getCall.pre_alert = <<"a">>
    /\ getCall.now = getCall.pre_time + 10
    /\ getCall.ret = None
    /\ drawCall.pre.old_alert = <<"a">>
    /\ drawCall.pre.neopixels
    /\ drawCall.mode = "clock"
    /\ HasFullClear(drawCall.fb)
    /\ ~neopixels

\* C10, as claimed: draw() is in alert mode for every value get() returns as
\* an alert, the empty text of a blank payload included, and in clock mode
\* only for None.
C10_Original ==
    drawCall.called => (drawCall.mode = "alert" <=> drawCall.alert # None)

\* ---------------------------------------------------------------------------
\* C11: every draw() call performs exactly one LED operation, whichever branch
\* it takes.
C11_Original ==
    drawCall.called => Len(drawCall.led) = 1

\* C11, as the code has it: a draw() call sends exactly one LED frame when the
\* alert is the one already rendered and when the clock is redrawn, and sends
\* none when a new alert is rendered and when the time string is unchanged.
C11_LedPerBranch ==
    drawCall.called =>
        LET a == drawCall.alert
            same_alert == Truthy(a) /\ a = drawCall.pre.old_alert
            same_time == ~Truthy(a)
                         /\ FormatTime(drawCall.datetime)
                              = drawCall.pre.old_time_str
        IN Len(drawCall.led) =
             IF same_alert \/ (~Truthy(a) /\ ~same_time) THEN 1 ELSE 0

\* a new alert has been rendered and no LED frame was sent
C11_Witness ==
    /\ drawCall.called
    /\ Truthy(drawCall.alert)
    /\ drawCall.alert # drawCall.pre.old_alert
    /\ drawCall.fb # <<>>
    /\ drawCall.led = <<>>

\* ---------------------------------------------------------------------------
\* C12: the LED is off whenever the display is in clock mode: after any draw()
\* call made with no alert, _neopixels is False and the last LED frame sent, if
\* any, is the all-off frame, whatever alert and clock ticks came before.
C12_ClockModeLedOff ==
    (drawCall.called /\ drawCall.mode = "clock") =>
        /\ ~neopixels
        /\ strip # <<>> => strip = FrameOff

\* a clock tick has ended an alert whose blink had the LED lit
C12_Witness ==
    /\ drawCall.called
    /\ drawCall.mode = "clock"
    /\ drawCall.pre.neopixels
    /\ drawCall.pre.old_alert # <<>>
    /\ ~neopixels
    /\ strip = FrameOff

\* ---------------------------------------------------------------------------
\* C13: a draw() call whose alert text equals the last rendered alert text
\* flips the LED (off becomes pink, pink becomes off), and the only LED frames
\* ever sent are the all-off frame and the pink frame, never the white one.
C13_BlinkOffPink ==
    /\ (/\ drawCall.called
        /\ Truthy(drawCall.alert)
        /\ drawCall.alert = drawCall.pre.old_alert) =>
           /\ neopixels = ~drawCall.pre.neopixels
           /\ drawCall.led =
                <<IF drawCall.pre.neopixels THEN FrameOff ELSE FramePink>>
           /\ strip = drawCall.led[1]
    /\ \A i \in 1..Len(drawCall.led) :
           drawCall.led[i] \in {FrameOff, FramePink}
    /\ strip \in {<<>>, FrameOff, FramePink}
    /\ neopixels <=> strip = FramePink

\* an unchanged alert was drawn while the LED was lit: the blink turned it off
C13_Witness ==
    /\ drawCall.called
    /\ Truthy(drawCall.alert)
    /\ drawCall.alert = drawCall.pre.old_alert
    /\ drawCall.pre.neopixels
    /\ ~neopixels
    /\ strip = FrameOff

\* ---------------------------------------------------------------------------
\* C14: the driver loop never exits: once main() is started, whatever the
\* network is like at startup (the WiFi failing to come up included), the loop
\* is entered and main never returns.
C14_Original ==
    pc # "exited"

\* ---------------------------------------------------------------------------
\* the last get() had the message handler called with a payload that is not
\* valid UTF-8
BadPayloadHandled ==
    /\ getCall.called
    /\ getCall.delivered # <<>>
    /\ getCall.delivered[1].topic = TOPIC_INFO
    /\ DecodeRaises(getCall.delivered[1].data)

\* C15, as claimed: when the message handler is invoked during get() with a
\* payload that is not valid UTF-8, the decode error propagates out of get()
\* as a fatal error.
C15_Original ==
    BadPayloadHandled => pc = "raised"

\* C15, as the code has it: the decode error does not leave get(); the bare
\* except of get() takes it like a transport failure: one _connect() is made,
\* get() returns None, no alert is stored and the arrival time stays.
C15_DecodeErrorSwallowed ==
    BadPayloadHandled =>
        /\ pc # "raised"
        /\ getCall.raised
        /\ getCall.reconnected
        /\ getCall.ret = None
        /\ getCall.ops[1] = "check_msg"
        /\ IsConnectCycle(Tail(getCall.ops))
        /\ pc = "draw" => (alert = None /\ alert_time = getCall.pre_time)

\* the payload <<255>> reached the handler, get() reconnected and returned
\* None to the loop
C15_Witness ==
    /\ pc = "draw"
    /\ BadPayloadHandled
    /\ getCall.delivered[1].data = <<255>>
    /\ getCall.ret = None
    /\ getCall.ops = <<"check_msg", "wifi.status", "connect", "subscribe">>

\* ---------------------------------------------------------------------------
\* the scaled text height the word-wrap multiplies by 1.4
ScaledTextHeight == getTextHeight(<<>>) * 3

\* C16, as claimed: each time the word-wrap commits a line and starts a new
\* one, the vertical cursor advances by ceil(line_height * 1.4), line_height
\* being the scaled text height.
C16_Original ==
    (drawCall.called /\ drawCall.mode = "alert") =>
        \A i \in 1..(Len(Lines) - 1) :
            (Lines[i + 1].y - Lines[i].y) * 10
                \in (ScaledTextHeight * 14)..(ScaledTextHeight * 14 + 9)

\* C16, as the code has it: the first line is drawn at y = 0 and each new
\* line advances the vertical cursor by int(line_height * 1.4), which rounds
\* down.
C16_AdvanceRoundsDown ==
    (drawCall.called /\ drawCall.mode = "alert" /\ drawCall.fb # <<>>) =>
        /\ Lines[1].y = 0
        /\ \A i \in 1..(Len(Lines) - 1) :
              LET d == Lines[i + 1].y - Lines[i].y
              IN /\ d * 10 <= ScaledTextHeight * 14
                 /\ ScaledTextHeight * 14 < (d + 1) * 10

\* three lines have been drawn, at 0, one and two line advances, where 1.4
\* times the scaled text height is no whole number
C16_Witness ==
    /\ drawCall.called
    /\ drawCall.mode = "alert"
    /\ Len(Lines) >= 3
    /\ (ScaledTextHeight * 14) % 10 # 0
    /\ Lines[2].y > 0
    /\ Lines[3].y = 2 * Lines[2].y

\* ---------------------------------------------------------------------------
\* the texts of lines, joined with single spaces
RECURSIVE JoinLines(_)
JoinLines(lines) ==
    IF Len(lines) = 1 THEN lines[1].text
    ELSE lines[1].text \o <<" ">> \o JoinLines(Tail(lines))

\* C17: the word-wrap loses and reorders nothing: the lines drawn, from top to
\* bottom, joined with single spaces, are the alert text exactly, and the last
\* line is always drawn: one drawText follows the last word, right before the
\* flush.
C17_WrapKeepsText ==
    (drawCall.called /\ drawCall.mode = "alert" /\ drawCall.fb # <<>>) =>
        /\ Lines # <<>>
        /\ JoinLines(Lines) = drawCall.alert
        /\ \A i \in 1..(Len(Lines) - 1) : Lines[i].y < Lines[i + 1].y
        /\ LET n == Len(drawCall.fb)
           IN /\ drawCall.fb[n] = Flush
              /\ drawCall.fb[n - 1] = Lines[Len(Lines)]
              /\ \A k \in 4..(n - 1) : IsDrawText(drawCall.fb[k])

\* a text with a run of spaces has been wrapped into at least three lines,
\* one of them ending in a space and one of them empty
C17_Witness ==
    /\ drawCall.called
    /\ drawCall.mode = "alert"
    /\ Len(Lines) >= 3
    /\ \E i \in 1..Len(Lines) :
          /\ Lines[i].text # <<>>
          /\ Lines[i].text[Len(Lines[i].text)] = " "
    /\ \E j \in 1..Len(Lines) : Lines[j].text = <<>>

\* ---------------------------------------------------------------------------
\* C18: whenever _old_alert is non-empty, _old_time_str is empty; so the first
\* clock-mode draw() after an alert-mode one never takes the no-op path and
\* always redraws the clock.
C18_AlertClearsTimeStr ==
    /\ old_alert # <<>> => old_time_str = <<>>
    /\ (/\ drawCall.called
        /\ drawCall.mode = "clock"
        /\ drawCall.pre.old_alert # <<>>) =>
           /\ drawCall.pre.old_time_str = <<>>
           /\ \E k \in 1..Len(drawCall.fb) :
                 drawCall.fb[k] = DrawText(0, 0, FormatTime(drawCall.datetime), 5)
           /\ drawCall.fb[Len(drawCall.fb)] = Flush
           /\ old_time_str = FormatTime(drawCall.datetime)
           /\ old_alert = <<>>

\* the clock had been drawn, an alert was rendered, and the clock-mode call
\* that followed, on the same weekday, has redrawn the clock at 09:41
C18_Witness ==
    /\ drawCall.called
    /\ drawCall.mode = "clock"
    /\ drawCall.pre.old_alert # <<>>
    /\ drawCall.pre.old_date_str = FormatDate(drawCall.datetime)
    /\ drawCall.fb # <<>>
    /\ old_time_str = <<"0", "9", ":", "4", "1">>

\* ---------------------------------------------------------------------------
\* the display shows the alert text a: black text lines at scale 3 on white
\* that join to a
ScreenShowsAlert(a) ==
    /\ screen.fill = WHITE
    /\ screen.texts # <<>>
    /\ \A i \in 1..Len(screen.texts) : screen.texts[i].scale = 3
    /\ JoinLines(screen.texts) = a

\* the display shows the time string and the weekday name of dt, and no
\* other text
ScreenShowsClock(dt) ==
    /\ screen.fill = WHITE
    /\ Len(screen.texts) = 2
    /\ screen.texts[1].text = FormatTime(dt)
    /\ screen.texts[2].text = WEEKDAYS[dt[7]]

\* C19, as claimed: after every draw() call, what was flushed to the display
\* last corresponds to the inputs of that call: the alert text if an alert
\* was passed, else the HH:MM string and the weekday name of the DateTime
\* passed, also when the HH:MM equals the one rendered last while the weekday
\* differs.
C19_Original ==
    drawCall.called =>
        IF drawCall.mode = "alert"
        THEN ScreenShowsAlert(drawCall.alert)
        ELSE ScreenShowsClock(drawCall.datetime)

====
